---- MODULE Spec2Model ----
(***************************************************************************)
(* The retrieval service of str-foundry-local: RAGService                  *)
(* (src/src/services/ragService.ts), the singleton every caller shares,    *)
(* with its two initializers (src/src/services/serverInit.ts and the       *)
(* AgentService constructor, src/src/services/agentService.ts).            *)
(*                                                                         *)
(* Strings are sequences of one-character strings, so that splitting,      *)
(* lower-casing, prefix and substring matching are computed, not assumed.  *)
(* Similarities are integers scaled by SimScale (100 = 1.0).               *)
(***************************************************************************)
EXTENDS Integers, Sequences, FiniteSets, TLC

\* ------------------------------------------------------------------ bounds
MaxEvents == 3      \* calls into the service, file-system events and faults
MaxK == 2           \* largest limit passed to search

SimScale == 100     \* fixed-point scale of a similarity: 100 stands for 1.0

\* ------------------------------------------------------------------ strings
\* a string is a tuple of one-character strings
Spaces == {" ", "\n"}

\* String.prototype.toLowerCase, on the alphabet of the model
ToLowerChar(c) == IF c = "C" THEN "c" ELSE c
ToLowerCase(s) == [i \in 1..Len(s) |-> ToLowerChar(s[i])]

Concat(ss) ==
  LET RECURSIVE Cat(_)
      Cat(i) == IF i > Len(ss) THEN <<>> ELSE ss[i] \o Cat(i + 1)
  IN Cat(1)

\* Array.prototype.join
Join(ss, sep) ==
  LET RECURSIVE J(_)
      J(i) == IF i > Len(ss) THEN <<>>
              ELSE IF i = Len(ss) THEN ss[i]
              ELSE ss[i] \o sep \o J(i + 1)
  IN J(1)

\* the pieces of s between the characters of the set seps; with
\* keepEmpty a leading or trailing separator run yields an empty piece,
\* as String.prototype.split(/\s+/) does
SplitOn(s, seps, keepEmpty) ==
  LET RECURSIVE Go(_, _, _, _)
      \* i: next position, cur: piece being read, inSep: last char was a
      \* separator, acc: pieces so far
      Go(i, cur, inSep, acc) ==
        IF i > Len(s)
          THEN IF cur # <<>> \/ (keepEmpty /\ (inSep \/ Len(s) = 0))
                 THEN Append(acc, cur) ELSE acc
        ELSE IF s[i] \in seps
          THEN IF inSep THEN Go(i + 1, cur, TRUE, acc)
               ELSE IF cur # <<>> \/ (keepEmpty /\ i = 1)
                      THEN Go(i + 1, <<>>, TRUE, Append(acc, cur))
                      ELSE Go(i + 1, <<>>, TRUE, acc)
        ELSE Go(i + 1, Append(cur, s[i]), FALSE, acc)
  IN Go(1, <<>>, FALSE, <<>>)

\* query.split(/\s+/)
SplitWhitespace(s) == SplitOn(s, Spaces, TRUE)

IsPrefixOf(p, s) == Len(p) <= Len(s) /\ SubSeq(s, 1, Len(p)) = p

\* s contains sub as a substring
Includes(s, sub) ==
  \E i \in 0..(Len(s) - Len(sub)) : SubSeq(s, i + 1, i + Len(sub)) = sub

\* the indexes i, in order, at which keep[i] holds
SelectSeqIdx(keep) ==
  LET RECURSIVE F(_)
      F(i) == IF i > Len(keep) THEN <<>>
              ELSE IF keep[i] THEN <<i>> \o F(i + 1) ELSE F(i + 1)
  IN F(1)

\* Array.prototype.slice(0, n) for n >= 0
Slice(s, n) == SubSeq(s, 1, IF n < Len(s) THEN n ELSE Len(s))

Range(s) == {s[i] : i \in 1..Len(s)}

MaxOf(S) == CHOOSE x \in S : \A y \in S : y <= x

\* ------------------------------------------------------------------ corpus
\* CSV rows are sequences of <<column, value>> pairs in column order
ColTerm == <<"t", "e", "r", "m">>
RowCache == << <<ColTerm, <<"c", "a", "c", "h", "e">>>> >>
RowCat == << <<ColTerm, <<"C", "a", "t">>>> >>

\* the two row lists a source file may hold; writing a file that holds one
\* of them leaves it with the other
RowsShort == <<RowCache>>
RowsLong == <<RowCat, RowCache>>

FileNames == {"a.csv", "definitions.csv"}
\* fs.readdirSync lists names in lexicographic order
FileOrder == <<"a.csv", "definitions.csv">>

\* queries: "cache" (one long token), "cat" (no token longer than 3),
\* "term Cat" (a long token and a short one)
QCache == <<"c", "a", "c", "h", "e">>
QCat == <<"c", "a", "t">>
QTermCat == <<"t", "e", "r", "m", " ", "C", "a", "t">>
Queries == {QCache, QCat, QTermCat}

\* embedding vectors the provider may return (all of Euclidean norm 5)
Vectors == { <<3, 4>>, <<4, 3>>, <<-3, -4>>, <<5, 0>> }

\* ------------------------------------------------ row -> document (l.322-333)
\* formatRowContent: "column: value" lines joined by newlines
formatRowContent(row) ==
  Join([i \in 1..Len(row) |-> row[i][1] \o <<":", " ">> \o row[i][2]], <<"\n">>)

\* an id made of the file name and the row index alone
createDocumentIdOfRow(fileName, rowIndex, content) == <<fileName, rowIndex>>

\* createDocumentId: md5 of `${fileName}-${rowIndex}-${content}`; the digest
\* is modelled as an injective function of the three interpolated values
createDocumentId(fileName, rowIndex, content) == <<fileName, rowIndex, content>>

\* the DocumentChunk ingestCSV builds for row i (0-based) of a file
DocumentOf(fileName, i, row) ==
  LET content == formatRowContent(row)
  IN [id |-> createDocumentId(fileName, i, content),
      content |-> content,
      metadata |-> [source |-> fileName, row_index |-> i,
                    columns |-> [j \in 1..Len(row) |-> row[j][1]]]]

\* a plain INSERT into a table that has no primary key
InsertAgain(table, row) == Append(table, row)

\* INSERT OR REPLACE: a row with the same primary key is deleted and the new
\* row is appended with a fresh rowid
InsertOrReplace(table, row) ==
  Append(SelectSeq(table, LAMBDA r : r.id # row.id), row)

\* ------------------------------------------------ getEmbedding (l.371-384)
\* a request that drops form feeds from the text before sending it
getEmbeddingInputStripped(text) == SelectSeq(text, LAMBDA c : c # "\f")

\* the `input` of the request getEmbedding sends for a text (l.373)
getEmbeddingInput(text) == text

\* ------------------------------------------------ vector scoring (l.526-546)
Dot(x, y) ==
  LET RECURSIVE D(_)
      D(i) == IF i > Len(x) THEN 0 ELSE x[i] * y[i] + D(i + 1)
  IN D(1)

L2Norm(x) ==
  LET n == Dot(x, x)
  IN CHOOSE r \in 0..n : r * r <= n /\ (r + 1) * (r + 1) > n

\* compute-cosine-similarity: dot(x,y) / (l2norm(x) * l2norm(y)), scaled
computeCosineSimilarity(x, y) == (Dot(x, y) * SimScale) \div (L2Norm(x) * L2Norm(y))

\* a sort whose comparator has the operands the other way round
SortAscending(s) ==
  LET RECURSIVE Ins(_, _)
      Ins(sorted, x) ==
        IF sorted = <<>> THEN <<x>>
        ELSE IF Head(sorted).similarity <= x.similarity
               THEN <<Head(sorted)>> \o Ins(Tail(sorted), x)
               ELSE <<x>> \o sorted
      RECURSIVE Srt(_)
      Srt(i) == IF i = 0 THEN <<>> ELSE Ins(Srt(i - 1), s[i])
  IN Srt(Len(s))

\* Array.prototype.sort with comparator (a, b) => b.similarity - a.similarity:
\* a stable sort into non-increasing similarity
SortBySimilarity(s) ==
  LET RECURSIVE Ins(_, _)
      \* insert x behind every element that is >= x
      Ins(sorted, x) ==
        IF sorted = <<>> THEN <<x>>
        ELSE IF Head(sorted).similarity >= x.similarity
               THEN <<Head(sorted)>> \o Ins(Tail(sorted), x)
               ELSE <<x>> \o sorted
      RECURSIVE Srt(_)
      Srt(i) == IF i = 0 THEN <<>> ELSE Ins(Srt(i - 1), s[i])
  IN Srt(Len(s))

\* a LEFT JOIN: every document, one without an embedding row with a stand-in
JoinedRowsLeft(docs, embs) ==
  [n \in 1..Len(docs) |->
     [id |-> docs[n].id, content |-> docs[n].content,
      embedding |-> IF \E e \in Range(embs) : e.document_id = docs[n].id
                      THEN (CHOOSE e \in Range(embs) : e.document_id = docs[n].id).embedding
                      ELSE <<5, 0>>]]

\* the rows of documents JOIN embeddings, in the order of the embeddings
\* table (the join is driven by embeddings, looked up by documents' key)
JoinedRows(docs, embs) ==
  LET idx == SelectSeqIdx([i \in 1..Len(embs) |->
                             \E j \in 1..Len(docs) : docs[j].id = embs[i].document_id])
  IN [n \in 1..Len(idx) |->
        LET e == embs[idx[n]]
            d == CHOOSE d \in Range(docs) : d.id = e.document_id
        IN [id |-> d.id, content |-> d.content, embedding |-> e.embedding]]

\* a score that favours the rows of definitions.csv by a factor 1.2, capped
ScoreDocumentBoosted(queryEmbedding, doc) ==
  LET cosine == computeCosineSimilarity(queryEmbedding, doc.embedding)
      boosted == (12 * cosine) \div 10
  IN [id |-> doc.id, content |-> doc.content,
      similarity |-> IF doc.id[1] # "definitions.csv" THEN cosine
                     ELSE IF boosted > SimScale THEN SimScale ELSE boosted]

\* score of one joined row
ScoreDocument(queryEmbedding, doc) ==
  [id |-> doc.id, content |-> doc.content,
   similarity |-> computeCosineSimilarity(queryEmbedding, doc.embedding)]

\* l.527-541: score every joined row, sort, keep the first `limit`
RankedDocuments(docs, embs, queryEmbedding, limit) ==
  LET rows == JoinedRows(docs, embs)
      scored == [i \in 1..Len(rows) |-> ScoreDocument(queryEmbedding, rows[i])]
  IN Slice(SortBySimilarity(scored), limit)

\* l.542-546: the list returned for the ranked rows
VectorResults(ranked) ==
  [i \in 1..Len(ranked) |->
     [content |-> ranked[i].content, similarity |-> ranked[i].similarity,
      sourceType |-> "vector"]]

\* ------------------------------------------------ text search (l.389-495)
\* prepareSearchTerms: lower-case, split on whitespace, keep the terms longer
\* than 3 characters; each kept term t stands for the FTS5 term "t"* and
\* the list for their OR (the empty list for the empty MATCH string)
prepareSearchTerms(query) ==
  SelectSeq(SplitWhitespace(ToLowerCase(query)), LAMBDA term : Len(term) > 3)

\* the tokens FTS5 (unicode61) indexes for a text: runs of letters, folded
\* to lower case
Separators == Spaces \cup {":"}
FtsTokens(text) == SplitOn(ToLowerCase(text), Separators, FALSE)

\* documents_fts MATCH terms: some term is a prefix of some indexed token
FtsMatches(content, terms) ==
  \E i \in 1..Len(terms) : \E j \in 1..Len(FtsTokens(content)) :
    IsPrefixOf(terms[i], FtsTokens(content)[j])

\* content LIKE '%pattern%' (LIKE ignores the case of ASCII letters)
Like(content, pattern) == Includes(ToLowerCase(content), ToLowerCase(pattern))

\* The derived index: rows is what documents_fts holds; health is "ok",
\* "corrupt" (the query raises an error with a corruption signature that
\* a rebuild repairs), "damaged" (such an error that a rebuild does not
\* repair) or "missing" (the query raises an error without the signature)
FtsHealths == {"ok", "corrupt", "damaged", "missing"}

\* a rebuild that empties the index and does not fill it again
rebuildFtsTableEmptied(fts, docs) ==
  IF Len(docs) > 0 /\ fts.health \in {"ok", "corrupt"}
    THEN [rows |-> <<>>, health |-> "ok"]
    ELSE fts

\* rebuildFtsTable (l.247-269): DELETE + INSERT..SELECT when documents is not
\* empty; every error is swallowed
rebuildFtsTable(fts, docs) ==
  IF Len(docs) > 0 /\ fts.health \in {"ok", "corrupt"}
    THEN [rows |-> [i \in 1..Len(docs) |-> [id |-> docs[i].id, content |-> docs[i].content]],
          health |-> "ok"]
    ELSE fts

\* the SELECT ... FROM documents_fts WHERE documents_fts MATCH ? ... LIMIT ?
\* of l.400-407 and l.422-429: rows, or the error it raises. An empty MATCH
\* string is an fts5 syntax error. ORDER BY rank is modelled as index order.
FtsQuery(fts, terms, limit) ==
  IF fts.health = "missing" THEN [ok |-> FALSE, signature |-> FALSE, rows |-> <<>>]
  ELSE IF fts.health # "ok" \/ terms = <<>>
    THEN [ok |-> FALSE, signature |-> TRUE, rows |-> <<>>]
  ELSE [ok |-> TRUE, signature |-> FALSE,
        rows |-> Slice(SelectSeq(fts.rows, LAMBDA r : FtsMatches(r.content, terms)), limit)]

\* the LIKE scan of l.445-469
LikeScan(docs, query, limit) ==
  LET terms == SelectSeq(SplitWhitespace(query), LAMBDA term : Len(term) > 3)
  IN IF Len(terms) = 0
       THEN Slice(SelectSeq(docs, LAMBDA d : Like(d.content, query)), limit)
       ELSE Slice(SelectSeq(docs, LAMBDA d :
                    \E i \in 1..Len(terms) : Like(d.content, terms[i])), limit)

\* a mapping that gives every row the similarity 1
TextResultsFlat(rows) ==
  [i \in 1..Len(rows) |->
     [content |-> rows[i].content, similarity |-> SimScale, sourceType |-> "text"]]

\* results.map of l.472-476: similarity 1 - 0.1 * index
TextResults(rows) ==
  [i \in 1..Len(rows) |->
     [content |-> rows[i].content,
      similarity |-> SimScale - (i - 1) * (SimScale \div 10),
      sourceType |-> "text"]]

\* the body of textSearch inside its try (l.395-476) on an open store: the
\* list it computes, the derived index it leaves, and whether it raised.
\* `results` stays undefined only when the first query raised, and then
\* either the retry defines it or the error is rethrown (l.435, l.440)
\* past the LIKE scan of l.445-469. retried: the index was rebuilt and the
\* retry succeeded (l.431 is reached).
textSearchTry(docs, fts, query, limit) ==
  LET searchTerms == prepareSearchTerms(query)
      first == FtsQuery(fts, searchTerms, limit)
      rebuilt == rebuildFtsTable(fts, docs)
      retry == FtsQuery(rebuilt, searchTerms, limit)
      \* the state after the inner try/catch of l.399-442
      inner ==
        IF first.ok THEN [thrown |-> FALSE, defined |-> TRUE, rows |-> first.rows, fts |-> fts,
                          retried |-> FALSE]
        ELSE IF first.signature
          THEN IF retry.ok
                 THEN [thrown |-> FALSE, defined |-> TRUE, rows |-> retry.rows, fts |-> rebuilt,
                       retried |-> TRUE]
                 ELSE [thrown |-> TRUE, defined |-> FALSE, rows |-> <<>>, fts |-> rebuilt,
                       retried |-> FALSE]
        ELSE [thrown |-> TRUE, defined |-> FALSE, rows |-> <<>>, fts |-> fts,
              retried |-> FALSE]
  IN IF inner.thrown
       THEN [results |-> <<>>, fts |-> inner.fts, thrown |-> TRUE, retried |-> FALSE]
     ELSE IF ~inner.defined
       THEN [results |-> TextResults(LikeScan(docs, query, limit)), fts |-> inner.fts,
             thrown |-> FALSE, retried |-> inner.retried]
     ELSE [results |-> TextResults(inner.rows), fts |-> inner.fts, thrown |-> FALSE,
           retried |-> inner.retried]

\* a catch that lets the error through to the caller
CatchRethrow(out) == out

\* catch (error) { ...; return []; } of l.477-480 and of l.560-563
CatchReturnEmpty(out) ==
  IF out.thrown THEN [out EXCEPT !.results = <<>>, !.thrown = FALSE] ELSE out

\* textSearch (l.389-481) on an open store
textSearch(docs, fts, query, limit) ==
  CatchReturnEmpty(textSearchTry(docs, fts, query, limit))

\* ------------------------------------------------------------------ state
VARIABLES
  now,                    \* the clock (Date.now, file-system timestamps)
  files,                  \* the data directory: name -> [present, mtime, rows]
  dbFile,                 \* rag.db on disk: [exists, mtime]
  embedModel,             \* the embedding provider: text -> vector it returns
  db,                     \* this.db is an open handle (FALSE: null)
  documents,              \* table documents, in rowid order
  embeddings,             \* table embeddings, in rowid order
  fts,                    \* table documents_fts: [rows, health]
  isInitialized,          \* RAGService.isInitialized
  hasContent,             \* RAGService.hasContent
  ingestedFiles,          \* RAGService.ingestedFiles, the ledger
  lastIngestTime,         \* RAGService.lastIngestTime (NoTime: null)
  searchCount,            \* RAGService.searchCount
  matchCount,             \* RAGService.matchCount
  embeddingFailureCount,  \* RAGService.embeddingFailureCount
  useFullTextSearch,      \* RAGService.useFullTextSearch, the mode flag
  serverIsInitialized,    \* serverInit.ts: isInitialized
  tasks,                  \* the asynchronous calls suspended at an await
  ret,                    \* what the step just taken returned to its caller
  hist                    \* bookkeeping: calls made so far, events observed

vars == <<now, files, dbFile, embedModel, db, documents, embeddings, fts,
          isInitialized, hasContent, ingestedFiles, lastIngestTime,
          searchCount, matchCount, embeddingFailureCount, useFullTextSearch,
          serverIsInitialized, tasks, ret, hist>>

NoTime == 0 - 1
NoFile == [present |-> FALSE, mtime |-> 0, rows |-> <<>>]
NoRet == [kind |-> "none"]

\* the text of the availability probe of l.142
TestText == <<"t", "e", "s", "t">>

\* every text the provider is asked to embed
Texts == {formatRowContent(RowCache), formatRowContent(RowCat), TestText} \cup Queries

\* the provider of the service runs: a query about "cache" points the way
\* of the cache rows, the other queries point elsewhere
DefaultEmbedding ==
  [t \in Texts |->
     IF t = formatRowContent(RowCache) THEN <<3, 4>>
     ELSE IF t = formatRowContent(RowCat) THEN <<-3, -4>>
     ELSE IF t = QCache THEN <<4, 3>>
     ELSE <<5, 0>>]

\* .filter(file => file.endsWith('.csv')) over readdirSync: the present files
ListCsv(fs) == SelectSeq(FileOrder, LAMBDA f : fs[f].present)

\* every document of a file with the given rows
DocumentsOfFile(fileName, rows) ==
  [i \in 1..Len(rows) |-> DocumentOf(fileName, i - 1, rows[i])]

\* the store an earlier run of the process left for the directory fs
PersistedDocuments(fs) ==
  Concat([n \in 1..Len(ListCsv(fs)) |->
            DocumentsOfFile(ListCsv(fs)[n], fs[ListCsv(fs)[n]].rows)])

EmbeddingRow(doc, vec) == [id |-> doc.id, document_id |-> doc.id, embedding |-> vec]
FtsRow(doc) == [id |-> doc.id, content |-> doc.content]

EmptyFts == [rows |-> <<>>, health |-> "ok"]

InitHist ==
  [events |-> 0,       \* calls, file-system events and faults so far
   calls |-> 0,        \* calls to search so far
   closed |-> FALSE,   \* close() has been called
   tripped |-> FALSE,  \* a search has failed on the vector path
   embedded |-> FALSE] \* the provider has answered a call

\* Construction of the singleton (l.38-56, l.719) in a process that finds a
\* data directory and possibly the rag.db an earlier run left there
InitService ==
  /\ db = FALSE
  /\ isInitialized = FALSE
  /\ hasContent = FALSE
  /\ ingestedFiles = <<>>
  /\ lastIngestTime = NoTime
  /\ searchCount = 0
  /\ matchCount = 0
  /\ embeddingFailureCount = 0
  /\ useFullTextSearch = FALSE
  /\ serverIsInitialized = FALSE
  /\ tasks = <<>>
  /\ ret = NoRet
  /\ hist = InitHist

Init ==
  /\ now = 0
  /\ files = [name \in FileNames |->
                IF name = "a.csv"
                  THEN [present |-> TRUE, mtime |-> 0, rows |-> RowsShort]
                  ELSE NoFile]
  /\ embedModel = DefaultEmbedding
  /\ \E persisted \in BOOLEAN :
       /\ dbFile = [exists |-> persisted, mtime |-> 0]
       /\ documents = IF persisted THEN PersistedDocuments(files) ELSE <<>>
       /\ embeddings = [i \in 1..Len(documents) |->
                          EmbeddingRow(documents[i], embedModel[documents[i].content])]
       /\ fts = [rows |-> [i \in 1..Len(documents) |-> FtsRow(documents[i])],
                 health |-> "ok"]
  /\ InitService

\* ------------------------------------------------ the service as a record
\* The fields a handler may write, gathered so that the synchronous stretch
\* of a handler between two awaits is one function from record to record.
Service ==
  [documents |-> documents, embeddings |-> embeddings, fts |-> fts,
   dbFile |-> dbFile, db |-> db,
   isInitialized |-> isInitialized, hasContent |-> hasContent,
   ingestedFiles |-> ingestedFiles, lastIngestTime |-> lastIngestTime,
   searchCount |-> searchCount, matchCount |-> matchCount,
   embeddingFailureCount |-> embeddingFailureCount,
   useFullTextSearch |-> useFullTextSearch,
   serverIsInitialized |-> serverIsInitialized, hist |-> hist]

Commit(S) ==
  /\ documents' = S.documents
  /\ embeddings' = S.embeddings
  /\ fts' = S.fts
  /\ dbFile' = S.dbFile
  /\ db' = S.db
  /\ isInitialized' = S.isInitialized
  /\ hasContent' = S.hasContent
  /\ ingestedFiles' = S.ingestedFiles
  /\ lastIngestTime' = S.lastIngestTime
  /\ searchCount' = S.searchCount
  /\ matchCount' = S.matchCount
  /\ embeddingFailureCount' = S.embeddingFailureCount
  /\ useFullTextSearch' = S.useFullTextSearch
  /\ serverIsInitialized' = S.serverIsInitialized
  /\ hist' = S.hist

\* a suspended asynchronous call
NewTask(kind, caller) ==
  [kind |-> kind,       \* "init", "refresh" or "search"
   caller |-> caller,   \* "server" (serverInit), "agent" (AgentService), "status"
   pc |-> "",           \* the await it is suspended at: "read" (the CSV
                        \* stream), "embed" (a document's embedding),
                        \* "probe" (the test embedding), "query" (a query's)
   files |-> <<>>,      \* its listing of the data directory
   known |-> {},        \* refresh: the names in the ledger when it started
   phase |-> "",        \* refresh: "new" (l.620-654) or "updated" (l.657-684)
   i |-> 0,             \* index of the file (or ledger entry) being ingested
   file |-> "",         \* name of the file being ingested
   rows |-> <<>>,       \* the rows read from it
   r |-> 0,             \* index of the row whose embedding is awaited
   regenerateDb |-> FALSE,  \* initialize: its local regenerateDb
   failuresAtCall |-> 0,    \* initialize: embeddingFailureCount when called
   startedAt |-> now,       \* the time of the call
   stale |-> {},            \* refresh: the <<file, mtime>> it found later
                            \* than their ledger entries when it started
   error |-> "",            \* the file whose ingestCSV rejected, if one did
   dbTime |-> 0 - 1,        \* initialize: the mtime of the rag.db it found
                            \* (l.80), NoTime if it found none
   query |-> <<>>, limit |-> 0]

\* what a synchronous stretch leaves: the service, the call if it is
\* suspended again (tasks), and the value returned if it ended
\* (pass: the refresh pass that ended in the stretch, if one did)
NoPass == [kind |-> "none"]
Suspended(S, t) ==
  [S |-> S, tasks |-> <<t>>, done |-> FALSE, result |-> FALSE, pass |-> NoPass]
Ended(S, result) ==
  [S |-> S, tasks |-> <<>>, done |-> TRUE, result |-> result, pass |-> NoPass]

\* a refresh pass t that ended: at the end of its try block (how = "end"),
\* at an early return (l.608, l.613: "return") or in its catch (l.702-704:
\* "raise")
PassReturn(t, how) ==
  [kind |-> "refresh", files |-> t.files, known |-> t.known, stale |-> t.stale,
   startedAt |-> t.startedAt, how |-> how, error |-> t.error]
EndedPass(S, t, how) ==
  [S |-> S, tasks |-> <<>>, done |-> TRUE, result |-> FALSE, pass |-> PassReturn(t, how)]

\* ------------------------------------------------ storeDocument (l.338-366)
\* the INSERT OR REPLACE INTO documents of l.343-346, with the insert
\* trigger of l.215-220 mirroring the row into documents_fts
StoreDocumentRow(S, doc, clock) ==
  [S EXCEPT !.documents = InsertOrReplace(@, doc),
            !.fts = IF @.health = "missing" THEN @
                    ELSE [@ EXCEPT !.rows = InsertOrReplace(@, FtsRow(doc))],
            !.dbFile = [exists |-> TRUE, mtime |-> clock]]

\* the INSERT OR REPLACE INTO embeddings of l.352-355; with the handle gone
\* this.db.prepare raises inside the inner try and l.359 counts a failure
StoreEmbedding(S, doc, vec, clock) ==
  IF S.db
    THEN [S EXCEPT !.embeddings = InsertOrReplace(@, EmbeddingRow(doc, vec)),
                   !.dbFile = [exists |-> TRUE, mtime |-> clock]]
    ELSE [S EXCEPT !.embeddingFailureCount = @ + 1]

\* a failed embedding that undoes the row of the document
EmbeddingFailedRollback(S) ==
  [S EXCEPT !.documents = SubSeq(@, 1, Len(@) - 1),
            !.fts.rows = SubSeq(@, 1, Len(@) - 1),
            !.embeddingFailureCount = @ + 2]

\* a failed embedding of a document: counted by getEmbedding (l.381) and
\* counted again by storeDocument (l.359)
EmbeddingFailed(S) == [S EXCEPT !.embeddingFailureCount = @ + 2]

\* a row loop that asks the provider for every row, whatever the mode
StoreRowsEmbedding(S, fileName, rows, r, clock) ==
  IF r > Len(rows) \/ ~S.db THEN [S |-> S, waiting |-> FALSE, r |-> r]
  ELSE [S |-> StoreDocumentRow(S, DocumentOf(fileName, r - 1, rows[r]), clock),
        waiting |-> TRUE, r |-> r]

\* the row loop of ingestCSV (l.289-307) from row r on, up to the next
\* await of a provider call: without a handle storeDocument returns at
\* once (l.339); in text-only mode it calls no provider (l.350), so the
\* remaining rows are stored in one stretch
RECURSIVE StoreRows(_, _, _, _, _)
StoreRows(S, fileName, rows, r, clock) ==
  IF r > Len(rows) \/ ~S.db THEN [S |-> S, waiting |-> FALSE, r |-> r]
  ELSE LET S1 == StoreDocumentRow(S, DocumentOf(fileName, r - 1, rows[r]), clock)
       IN IF S.useFullTextSearch
            THEN StoreRows(S1, fileName, rows, r + 1, clock)
            ELSE [S |-> S1, waiting |-> TRUE, r |-> r]

\* ------------------------------------------------ full-text set-up
\* setupFullTextSearch (l.197-242): drop and recreate documents_fts and its
\* triggers, then rebuildFtsTable; errors are swallowed
setupFullTextSearch(S) ==
  IF ~S.db THEN S
  ELSE [S EXCEPT !.fts = rebuildFtsTable(EmptyFts, S.documents)]

\* a schema set-up that also starts the usage counters again
setupDatabaseResetting(S, clock) ==
  IF ~S.db THEN S
  ELSE setupFullTextSearch(
         [S EXCEPT !.documents = <<>>, !.embeddings = <<>>, !.fts = EmptyFts,
                   !.dbFile = [exists |-> TRUE, mtime |-> clock],
                   !.searchCount = 0, !.matchCount = 0, !.embeddingFailureCount = 0])

\* setupDatabase (l.163-192): drop the three tables, recreate them empty
setupDatabase(S, clock) ==
  IF ~S.db THEN S
  ELSE setupFullTextSearch(
         [S EXCEPT !.documents = <<>>, !.embeddings = <<>>, !.fts = EmptyFts,
                   !.dbFile = [exists |-> TRUE, mtime |-> clock]])

\* ------------------------------------------------ refresh (l.605-705)
LedgerEntry(fileName, time) == [fileName |-> fileName, ingestTime |-> time]

\* if (!this.lastIngestTime || mtime > this.lastIngestTime) lastIngestTime = mtime
LaterOf(last, time) == IF last = NoTime \/ time > last THEN time ELSE last

\* a pass that also deletes the documents of the files it drops from the ledger
RefreshFinishPurging(S, t, hasChanges) ==
  LET kept == SelectSeq(S.ingestedFiles, LAMBDA e : e.fileName \in Range(t.files))
      S1 == [S EXCEPT !.ingestedFiles = kept,
                      !.documents = SelectSeq(@, LAMBDA d : d.id[1] \in Range(t.files))]
  IN EndedPass(S1, t, "end")

\* l.686-701: drop the entries of files that are not in the listing, then,
\* if the pass saw a change, recompute lastIngestTime and hasContent (the
\* count raises when the handle is null, after lastIngestTime was written)
RefreshFinish(S, t, hasChanges) ==
  LET kept == SelectSeq(S.ingestedFiles, LAMBDA e : e.fileName \in Range(t.files))
      S1 == [S EXCEPT !.ingestedFiles = kept]
  IN IF hasChanges /\ Len(kept) > 0
       THEN EndedPass([S1 EXCEPT
                         !.lastIngestTime = MaxOf({kept[n].ingestTime : n \in 1..Len(kept)}),
                         !.hasContent = IF S.db THEN Len(S.documents) > 0 ELSE @],
                      t, IF S.db THEN "end" ELSE "raise")
       ELSE EndedPass(S1, t, "end")

\* l.657-684: the loop over the ledger from entry j on
RECURSIVE RefreshUpdatedLoop(_, _, _, _, _)
RefreshUpdatedLoop(S, t, j, hasChanges, fs) ==
  IF j > Len(S.ingestedFiles) THEN RefreshFinish(S, t, hasChanges)
  ELSE LET e == S.ingestedFiles[j]
           f == fs[e.fileName]
       IN IF f.present /\ f.mtime > e.ingestTime
            THEN IF S.isInitialized /\ S.db
                   THEN Suspended(S, [t EXCEPT !.pc = "read", !.phase = "updated",
                                               !.i = j, !.file = e.fileName])
                   ELSE RefreshUpdatedLoop(
                          [S EXCEPT !.ingestedFiles[j].ingestTime = f.mtime,
                                    !.lastIngestTime = LaterOf(@, f.mtime)],
                          t, j + 1, TRUE, fs)
            ELSE RefreshUpdatedLoop(S, t, j + 1, hasChanges, fs)

\* l.620-654: the loop over the listing from file i on; statSync raises for
\* a file that has gone since the listing, which ends the pass (l.702)
RECURSIVE RefreshNewLoop(_, _, _, _, _)
RefreshNewLoop(S, t, i, hasChanges, fs) ==
  IF i > Len(t.files)
    THEN IF hasChanges THEN RefreshFinish(S, t, TRUE)
         ELSE RefreshUpdatedLoop(S, t, 1, FALSE, fs)
  ELSE LET name == t.files[i]
       IN IF name \in t.known THEN RefreshNewLoop(S, t, i + 1, hasChanges, fs)
          ELSE IF ~fs[name].present THEN EndedPass(S, t, "raise")
          ELSE IF S.isInitialized /\ S.db
            THEN Suspended(S, [t EXCEPT !.pc = "read", !.phase = "new",
                                        !.i = i, !.file = name])
            ELSE RefreshNewLoop(
                   [S EXCEPT !.ingestedFiles = Append(@, LedgerEntry(name, fs[name].mtime)),
                             !.lastIngestTime = LaterOf(@, fs[name].mtime)],
                   t, i + 1, TRUE, fs)

\* refreshIngestedFiles up to its first await (l.605-630)
RefreshStart(S, fs) ==
  LET listing == ListCsv(fs)
      t == [NewTask("refresh", "status") EXCEPT
              !.files = listing,
              !.known = {S.ingestedFiles[n].fileName : n \in 1..Len(S.ingestedFiles)},
              !.stale = {<<e.fileName, fs[e.fileName].mtime>> :
                           e \in {e \in Range(S.ingestedFiles) :
                                    /\ fs[e.fileName].present
                                    /\ fs[e.fileName].mtime > e.ingestTime}}]
  IN IF Len(listing) = 0 THEN EndedPass(S, t, "return")
     ELSE RefreshNewLoop(S, t, 1, FALSE, fs)

\* a new file has been ingested and the ledger is left as it was
RefreshNewFileDoneUnrecorded(S, t, fs, clock) ==
  RefreshNewLoop(S, t, t.i + 1, TRUE, fs)

\* a new file has been ingested (l.632-640)
RefreshNewFileDone(S, t, fs, clock) ==
  RefreshNewLoop([S EXCEPT !.ingestedFiles = Append(@, LedgerEntry(t.file, clock)),
                           !.lastIngestTime = clock],
                 t, t.i + 1, TRUE, fs)

\* an updated file has been ingested again (l.671-673): the entry the loop
\* holds gets the new time
RefreshUpdatedFileDone(S, t, fs, clock) ==
  LET at == IF t.i <= Len(S.ingestedFiles) /\ S.ingestedFiles[t.i].fileName = t.file
              THEN {t.i}
              ELSE {}
  IN RefreshUpdatedLoop(
       [S EXCEPT !.ingestedFiles =
                    [n \in 1..Len(@) |->
                       IF n \in at THEN LedgerEntry(t.file, clock) ELSE @[n]],
                 !.lastIngestTime = clock],
       t, t.i + 1, TRUE, fs)

\* ------------------------------------------------ initialize (l.61-158)
\* l.136-142: count the documents (raises without a handle, and the catch
\* of l.154 returns false), then await the test embedding
InitAfterIngest(S, t) ==
  IF ~S.db THEN Ended(S, FALSE)
  ELSE Suspended([S EXCEPT !.hasContent = Len(S.documents) > 0],
                 [t EXCEPT !.pc = "probe"])

\* l.104-115: the loop over the listing from file i on; ingestCSV returns at
\* once without a handle (l.275)
RECURSIVE InitLoop(_, _, _, _)
InitLoop(S, t, i, clock) ==
  IF i > Len(t.files) THEN InitAfterIngest(S, t)
  ELSE IF ~S.db
    THEN InitLoop([S EXCEPT !.ingestedFiles = Append(@, LedgerEntry(t.files[i], clock)),
                            !.lastIngestTime = clock],
                  t, i + 1, clock)
  ELSE Suspended(S, [t EXCEPT !.pc = "read", !.i = i, !.file = t.files[i]])

\* a file of the rebuild has been ingested (l.108-114)
InitFileDone(S, t, clock) ==
  InitLoop([S EXCEPT !.ingestedFiles = Append(@, LedgerEntry(t.file, clock)),
                     !.lastIngestTime = clock],
           t, t.i + 1, clock)

\* a ledger whose entries all carry the epoch
LoadedLedgerEpoch(listing, fs) ==
  [n \in 1..Len(listing) |-> LedgerEntry(listing[n], 0)]

\* l.119-126: files.map(file => ({fileName: file, ingestTime: mtime of file}))
LoadedLedger(listing, fs) ==
  [n \in 1..Len(listing) |-> LedgerEntry(listing[n], fs[listing[n]].mtime)]

\* initialize up to its first await (l.61-106 or l.61-142)
InitializeStart(S, caller, fs, clock) ==
  LET listing == ListCsv(fs)
      regenerateDb == \/ ~S.dbFile.exists
                      \/ \E n \in 1..Len(listing) : fs[listing[n]].mtime > S.dbFile.mtime
      \* new Database(this.dbPath) creates the file when it is not there
      t == [NewTask("init", caller) EXCEPT
              !.files = listing, !.regenerateDb = regenerateDb,
              !.failuresAtCall = S.embeddingFailureCount,
              !.dbTime = IF S.dbFile.exists THEN S.dbFile.mtime ELSE NoTime]
      S1 == [S EXCEPT !.db = TRUE,
                      !.dbFile = IF @.exists THEN @ ELSE [exists |-> TRUE, mtime |-> clock]]
  IN IF Len(listing) = 0 THEN Ended(S, FALSE)
     ELSE IF regenerateDb
       THEN InitLoop([setupDatabase(S1, clock) EXCEPT !.ingestedFiles = <<>>], t, 1, clock)
     ELSE InitAfterIngest(
            [S1 EXCEPT
               !.ingestedFiles = LoadedLedger(listing, fs),
               !.lastIngestTime = MaxOf({fs[listing[n]].mtime : n \in 1..Len(listing)})],
            t)

\* a probe whose failure is handled without being counted
InitProbeDoneUncounted(S, ok) ==
  IF ok THEN [S EXCEPT !.useFullTextSearch = FALSE, !.isInitialized = TRUE,
                       !.hist.embedded = TRUE]
  ELSE [setupFullTextSearch([S EXCEPT !.useFullTextSearch = TRUE])
          EXCEPT !.isInitialized = TRUE]

\* the test embedding has been answered (l.141-153)
InitProbeDone(S, ok) ==
  IF ok THEN [S EXCEPT !.useFullTextSearch = FALSE, !.isInitialized = TRUE,
                       !.hist.embedded = TRUE]
  ELSE [setupFullTextSearch([S EXCEPT !.embeddingFailureCount = @ + 1,
                                      !.useFullTextSearch = TRUE])
          EXCEPT !.isInitialized = TRUE]

\* what the caller does with the value initialize returned: serverInit
\* (serverInit.ts l.20-30) asks for the ledger when it is true, which starts
\* a refresh pass, and sets its flag; AgentService only records the value
InitReturned(S, caller, result, fs) ==
  IF caller = "server"
    THEN LET pass == IF result THEN RefreshStart(S, fs) ELSE Ended(S, FALSE)
         IN [pass EXCEPT !.S.serverIsInitialized = TRUE, !.done = TRUE,
                         !.result = result]
    ELSE Ended(S, result)

\* a stretch of initialize, followed by the caller's continuation if it ended
WithCaller(out, caller, fs) ==
  IF out.done THEN InitReturned(out.S, caller, out.result, fs) ELSE out

\* ------------------------------------------------ search (l.500-564)
\* what a call to search hands back: the list (or the exception, threw),
\* with the ids of the ranked rows a vector answer was mapped from
SearchReturn(query, limit, out, path) ==
  [kind |-> "search", query |-> query, limit |-> limit, results |-> out.results,
   threw |-> out.thrown, ids |-> out.ids, path |-> path, retried |-> out.retried]

\* a guard that does not look at isInitialized
ReadyWithoutInit(S) == S.db /\ S.hasContent

\* the guard of l.501 and of l.390
Ready(S) == S.db /\ S.isInitialized /\ S.hasContent

\* isReady (l.579-581)
isReady(S) == S.isInitialized /\ S.hasContent

\* a search entry that forgets the counter
CountNothing(S) == S

\* this.searchCount++ (l.507)
CountSearch(S) == [S EXCEPT !.searchCount = @ + 1]

\* return await this.textSearch(query, limit) of l.511 and l.558: the
\* service it leaves and the list it returns
SearchByText(S, query, limit) ==
  IF ~Ready(S) THEN [S |-> S, results |-> <<>>, thrown |-> FALSE, ids |-> <<>>,
                     retried |-> FALSE]
  ELSE LET ts == textSearch(S.documents, S.fts, query, limit)
       IN [S |-> [S EXCEPT !.fts = ts.fts], results |-> ts.results,
           thrown |-> ts.thrown, ids |-> <<>>, retried |-> ts.retried]

\* a catch that switches the mode and gives up on the call
SearchFallbackEmpty(S, query, limit) ==
  [S |-> [S EXCEPT !.embeddingFailureCount = @ + 1,
                   !.useFullTextSearch = TRUE,
                   !.hist.tripped = TRUE],
   results |-> <<>>, thrown |-> FALSE, ids |-> <<>>, retried |-> FALSE]

\* the catch of l.554-558: count a failure, switch the mode, answer by text
SearchFallback(S, query, limit) ==
  SearchByText([S EXCEPT !.embeddingFailureCount = @ + 1,
                         !.useFullTextSearch = TRUE,
                         !.hist.tripped = TRUE],
               query, limit)

\* a vector path that keeps the embedding of the query in the embeddings
\* table
SearchByVectorCaching(S, query, limit, vec) ==
  LET ranked == RankedDocuments(S.documents, S.embeddings, vec, limit)
      results == VectorResults(ranked)
  IN [S |-> [S EXCEPT !.embeddings =
                        Append(@, [id |-> query, document_id |-> query, embedding |-> vec])],
      results |-> results, thrown |-> ~S.db,
      ids |-> [i \in 1..Len(ranked) |-> ranked[i].id], retried |-> FALSE]

\* l.519-553 once the query embedding has arrived; without a handle
\* this.db.prepare raises
SearchByVector(S, query, limit, vec) ==
  IF ~S.db THEN [S |-> S, results |-> <<>>, thrown |-> TRUE, ids |-> <<>>,
                 retried |-> FALSE]
  ELSE LET ranked == RankedDocuments(S.documents, S.embeddings, vec, limit)
           results == VectorResults(ranked)
       IN [S |-> [S EXCEPT !.matchCount = IF Len(results) > 0 THEN @ + Len(results) ELSE @],
           results |-> results, thrown |-> FALSE,
           ids |-> [i \in 1..Len(ranked) |-> ranked[i].id], retried |-> FALSE]

\* the inner try/catch of l.515-559 after the await: the provider answered
\* with vec (ok) or getEmbedding counted its failure (l.381) and rethrew
SearchAfterEmbedding(S, query, limit, ok, vec) ==
  LET tried == IF ok THEN SearchByVector(S, query, limit, vec)
               ELSE [S |-> [S EXCEPT !.embeddingFailureCount = @ + 1],
                     results |-> <<>>, thrown |-> TRUE, ids |-> <<>>, retried |-> FALSE]
  IN IF tried.thrown THEN SearchFallback(tried.S, query, limit) ELSE tried

\* ------------------------------------------------------------------ actions
ReplaceTask(k, new) == SubSeq(tasks, 1, k - 1) \o new \o SubSeq(tasks, k + 1, Len(tasks))

\* the caller's continuation after ingestCSV resolved
FileDone(S, t) ==
  IF t.kind = "init" THEN WithCaller(InitFileDone(S, t, now), t.caller, files)
  ELSE IF t.phase = "new" THEN RefreshNewFileDone(S, t, files, now)
  ELSE RefreshUpdatedFileDone(S, t, files, now)

\* the row loop from row r on, then the caller's continuation if it ends
IngestRows(S, t, rows, r) ==
  LET g == StoreRows(S, t.file, rows, r, now)
  IN IF g.waiting
       THEN Suspended(g.S, [t EXCEPT !.pc = "embed", !.rows = rows, !.r = g.r])
       ELSE FileDone(g.S, [t EXCEPT !.rows = rows])

\* what a call t of initialize hands back (normal: from l.153), with the
\* refresh pass its caller ran to its end in the same stretch, if any
InitializeReturn(t, out, normal) ==
  [kind |-> "initialize", caller |-> t.caller, result |-> out.result,
   failuresAtCall |-> t.failuresAtCall, regenerateDb |-> t.regenerateDb,
   files |-> t.files, startedAt |-> t.startedAt, normal |-> normal,
   error |-> t.error, pass |-> out.pass]

\* what the stretch of a call t that ended hands back
Returned(t, out, normal) ==
  IF ~out.done THEN NoRet
  ELSE IF t.kind = "init" THEN InitializeReturn(t, out, normal)
  ELSE out.pass

\* serverInit.initialize() (caller "server", a no-op once its flag is set)
\* or new AgentService() (caller "agent") calls ragService.initialize()
InitializeCall(caller) ==
  /\ hist.events < MaxEvents
  /\ caller = "server" => ~serverIsInitialized
  /\ LET S == [Service EXCEPT !.hist.events = @ + 1]
         out == WithCaller(InitializeStart(S, caller, files, now), caller, files)
     IN /\ Commit(out.S)
        /\ tasks' = tasks \o out.tasks
        /\ ret' = Returned([NewTask("init", caller) EXCEPT
                              !.failuresAtCall = embeddingFailureCount],
                            out, FALSE)
  /\ UNCHANGED <<now, files, embedModel>>

\* the CSV stream of ingestCSV has ended (l.286): the rows are those the
\* file holds now; the row loop runs to its first await
IngestRead(k) ==
  /\ tasks[k].pc = "read"
  /\ files[tasks[k].file].present
  /\ LET t == tasks[k]
         out == IngestRows(Service, t, files[t.file].rows, 1)
     IN /\ Commit(out.S)
        /\ tasks' = ReplaceTask(k, out.tasks)
        /\ ret' = Returned(t, out, FALSE)
  /\ UNCHANGED <<now, files, embedModel>>

\* the CSV stream of ingestCSV emits 'error' (a file the parser rejects):
\* the promise is rejected (l.311-313) and the rows read so far are dropped
\* with it; initialize lands in its catch and returns false (l.154-157),
\* a refresh pass lands in its catch and ends (l.702-704)
IngestError(k) ==
  /\ hist.events < MaxEvents
  /\ tasks[k].pc = "read"
  /\ LET t == [tasks[k] EXCEPT !.error = tasks[k].file]
         S == [Service EXCEPT !.hist.events = @ + 1]
         out == IF t.kind = "init"
                  THEN WithCaller(Ended(S, FALSE), t.caller, files)
                  ELSE EndedPass(S, t, "raise")
     IN /\ Commit(out.S)
        /\ tasks' = ReplaceTask(k, out.tasks)
        /\ ret' = Returned(t, out, FALSE)
  /\ UNCHANGED <<now, files, embedModel>>

\* the provider answers (ok) or fails the embedding of a document
\* (l.351-360); the row loop goes on
DocumentEmbedDone(k, ok) ==
  /\ tasks[k].pc = "embed"
  /\ LET t == tasks[k]
         doc == DocumentOf(t.file, t.r - 1, t.rows[t.r])
         S1 == IF ok
                 THEN StoreEmbedding([Service EXCEPT !.hist.embedded = TRUE],
                                     doc, embedModel[getEmbeddingInput(doc.content)], now)
                 ELSE EmbeddingFailed(Service)
         out == IngestRows(S1, t, t.rows, t.r + 1)
     IN /\ Commit(out.S)
        /\ tasks' = ReplaceTask(k, out.tasks)
        /\ ret' = Returned(t, out, FALSE)
  /\ UNCHANGED <<now, files, embedModel>>

\* the provider answers or fails the test embedding; initialize returns
ProbeDone(k, ok) ==
  /\ tasks[k].pc = "probe"
  /\ LET t == tasks[k]
         S1 == InitProbeDone(Service, ok)
         out == InitReturned(S1, t.caller, S1.hasContent, files)
     IN /\ Commit(out.S)
        /\ tasks' = ReplaceTask(k, out.tasks)
        /\ ret' = Returned(t, out, TRUE)
  /\ UNCHANGED <<now, files, embedModel>>

\* status(): getIngestedFilesInfo (l.587-600) starts a refresh pass and
\* returns the ledger as the pass left it at its first await
StatusCall ==
  /\ hist.events < MaxEvents
  /\ LET out == RefreshStart([Service EXCEPT !.hist.events = @ + 1], files)
     IN /\ Commit(out.S)
        /\ tasks' = tasks \o out.tasks
        /\ ret' = [kind |-> "status",
                   pass |-> out.pass,
                   files |-> out.S.ingestedFiles,
                   lastIngestTime |-> out.S.lastIngestTime,
                   stats |-> [totalSearches |-> out.S.searchCount,
                              totalMatches |-> out.S.matchCount,
                              embeddingFailures |-> out.S.embeddingFailureCount]]
  /\ UNCHANGED <<now, files, embedModel>>

\* search(query, limit) on a service that is not ready (l.501-503)
SearchNotReady(query, limit) ==
  /\ hist.events < MaxEvents
  /\ ~Ready(Service)
  /\ Commit([Service EXCEPT !.hist.events = @ + 1, !.hist.calls = @ + 1])
  /\ ret' = SearchReturn(query, limit,
                          [results |-> <<>>, thrown |-> FALSE, ids |-> <<>>,
                           retried |-> FALSE], "none")
  /\ UNCHANGED <<now, files, embedModel, tasks>>

\* search(query, limit) in text-only mode (l.505-512)
SearchText(query, limit) ==
  /\ hist.events < MaxEvents
  /\ Ready(Service)
  /\ useFullTextSearch
  /\ LET S == CountSearch([Service EXCEPT !.hist.events = @ + 1, !.hist.calls = @ + 1])
         out == CatchReturnEmpty(SearchByText(S, query, limit))
     IN /\ Commit(out.S)
        /\ ret' = SearchReturn(query, limit, out, "text")
  /\ UNCHANGED <<now, files, embedModel, tasks>>

\* search(query, limit) in vector mode, up to the await of l.517
SearchVector(query, limit) ==
  /\ hist.events < MaxEvents
  /\ Ready(Service)
  /\ ~useFullTextSearch
  /\ Commit(CountSearch([Service EXCEPT !.hist.events = @ + 1, !.hist.calls = @ + 1]))
  /\ tasks' = Append(tasks, [NewTask("search", "agent") EXCEPT
                               !.pc = "query", !.query = query, !.limit = limit])
  /\ ret' = NoRet
  /\ UNCHANGED <<now, files, embedModel>>

\* the provider answers (ok) or fails the query embedding; search returns
QueryEmbedDone(k, ok) ==
  /\ tasks[k].pc = "query"
  /\ LET t == tasks[k]
         S == IF ok THEN [Service EXCEPT !.hist.embedded = TRUE] ELSE Service
         out == CatchReturnEmpty(
                  SearchAfterEmbedding(S, t.query, t.limit, ok,
                                       embedModel[getEmbeddingInput(t.query)]))
     IN /\ Commit(out.S)
        /\ ret' = SearchReturn(t.query, t.limit, out,
                               IF ok /\ db THEN "vector" ELSE "fallback")
  /\ tasks' = ReplaceTask(k, <<>>)
  /\ UNCHANGED <<now, files, embedModel>>

\* close() (l.710-715)
Close ==
  /\ hist.events < MaxEvents
  /\ db
  /\ Commit([Service EXCEPT !.db = FALSE, !.hist.events = @ + 1, !.hist.closed = TRUE])
  /\ ret' = NoRet
  /\ UNCHANGED <<now, files, embedModel, tasks>>

\* the derived index goes bad (rows out of step with documents, a lost
\* table): the next full-text query raises
FtsFault(health) ==
  /\ hist.events < MaxEvents
  /\ dbFile.exists
  /\ fts.health = "ok"
  /\ Commit([Service EXCEPT !.fts.health = health, !.hist.events = @ + 1])
  /\ ret' = NoRet
  /\ UNCHANGED <<now, files, embedModel, tasks>>

\* a file is written into the data directory, new or over an old one
WriteFile(name) ==
  /\ hist.events < MaxEvents
  /\ now' = now + 1
  /\ files' = [files EXCEPT ![name] =
                 [present |-> TRUE, mtime |-> now + 1,
                  rows |-> IF files[name].present /\ files[name].rows = RowsLong
                             THEN RowsShort ELSE RowsLong]]
  /\ ret' = NoRet
  /\ UNCHANGED <<embedModel, tasks>>
  /\ Commit([Service EXCEPT !.hist.events = @ + 1])

\* a file of the data directory is saved again with the rows it holds
TouchFile(name) ==
  /\ hist.events < MaxEvents
  /\ files[name].present
  /\ now' = now + 1
  /\ files' = [files EXCEPT ![name].mtime = now + 1]
  /\ ret' = NoRet
  /\ UNCHANGED <<embedModel, tasks>>
  /\ Commit([Service EXCEPT !.hist.events = @ + 1])

\* a file is deleted from the data directory (not while its stream is open)
RemoveFile(name) ==
  /\ hist.events < MaxEvents
  /\ files[name].present
  /\ \A k \in 1..Len(tasks) : ~(tasks[k].pc = "read" /\ tasks[k].file = name)
  /\ now' = now + 1
  /\ files' = [files EXCEPT ![name] = NoFile]
  /\ ret' = NoRet
  /\ UNCHANGED <<embedModel, tasks>>
  /\ Commit([Service EXCEPT !.hist.events = @ + 1])

\* the limits a caller passes (agentService.ts l.159 passes 3)
Limits == 0..MaxK

Next ==
  \/ \E caller \in {"server", "agent"} : InitializeCall(caller)
  \/ \E k \in 1..Len(tasks) : IngestRead(k)
  \/ \E k \in 1..Len(tasks) : IngestError(k)
  \/ \E k \in 1..Len(tasks), ok \in BOOLEAN : DocumentEmbedDone(k, ok)
  \/ \E k \in 1..Len(tasks), ok \in BOOLEAN : ProbeDone(k, ok)
  \/ StatusCall
  \/ \E query \in Queries, limit \in Limits : SearchNotReady(query, limit)
  \/ \E query \in Queries, limit \in Limits : SearchText(query, limit)
  \/ \E query \in Queries, limit \in Limits : SearchVector(query, limit)
  \/ \E k \in 1..Len(tasks), ok \in BOOLEAN : QueryEmbedDone(k, ok)
  \/ Close
  \/ \E health \in FtsHealths \ {"ok"} : FtsFault(health)
  \/ \E name \in FileNames : WriteFile(name)
  \/ \E name \in FileNames : TouchFile(name)
  \/ \E name \in FileNames : RemoveFile(name)

Spec == Init /\ [][Next]_vars

\* ------------------------------------------------ the vector path alone
\* The ranking of l.519-546 over every store content and provider answer:
\* an initialized service in vector mode over two ingested files, each
\* document holding any stored vector or none (its embedding failed at
\* ingestion), the provider answering a query with any vector.
RankFiles ==
  [name \in FileNames |->
     [present |-> TRUE, mtime |-> 0,
      rows |-> IF name = "a.csv" THEN RowsLong ELSE RowsShort]]

NoVector == <<>>

InitRank ==
  /\ now = 0
  /\ files = RankFiles
  /\ dbFile = [exists |-> TRUE, mtime |-> 0]
  /\ documents = PersistedDocuments(files)
  /\ \E stored \in [1..Len(documents) -> Vectors \cup {NoVector}] :
       embeddings =
         LET idx == SelectSeqIdx([i \in 1..Len(documents) |-> stored[i] # NoVector])
         IN [n \in 1..Len(idx) |-> EmbeddingRow(documents[idx[n]], stored[idx[n]])]
  /\ fts = [rows |-> [i \in 1..Len(documents) |-> FtsRow(documents[i])], health |-> "ok"]
  /\ \E answer \in Vectors : embedModel = [t \in Texts |-> answer]
  /\ db = TRUE
  /\ isInitialized = TRUE
  /\ hasContent = TRUE
  /\ ingestedFiles = [n \in 1..Len(FileOrder) |-> LedgerEntry(FileOrder[n], 0)]
  /\ lastIngestTime = 0
  /\ searchCount = 0
  /\ matchCount = 0
  /\ embeddingFailureCount = 0
  /\ useFullTextSearch = FALSE
  /\ serverIsInitialized = TRUE
  /\ tasks = <<>>
  /\ ret = NoRet
  /\ hist = [InitHist EXCEPT !.events = MaxEvents - 1, !.embedded = TRUE]

NextRank ==
  \/ \E query \in Queries, limit \in Limits : SearchVector(query, limit)
  \/ \E k \in 1..Len(tasks), ok \in BOOLEAN : QueryEmbedDone(k, ok)

SpecRank == InitRank /\ [][NextRank]_vars

\* ------------------------------------------------ ingestion alone
\* Re-ingestion of files whose rows do not change: a service that
\* initialize left ready over a directory and the store an earlier run
\* built from it, in either mode; files are saved again unchanged and
\* refresh passes (l.605-705) ingest them again.
IngestDirectories ==
  { [name \in FileNames |->
       IF name = "a.csv" THEN [present |-> TRUE, mtime |-> 0, rows |-> first]
       ELSE IF second THEN [present |-> TRUE, mtime |-> 0, rows |-> RowsShort]
       ELSE NoFile] : first \in {RowsShort, RowsLong}, second \in BOOLEAN }

InitIngest ==
  /\ now = 0
  /\ files \in IngestDirectories
  /\ embedModel = DefaultEmbedding
  /\ dbFile = [exists |-> TRUE, mtime |-> 0]
  /\ documents = PersistedDocuments(files)
  /\ embeddings = [i \in 1..Len(documents) |->
                     EmbeddingRow(documents[i], embedModel[documents[i].content])]
  /\ fts = [rows |-> [i \in 1..Len(documents) |-> FtsRow(documents[i])], health |-> "ok"]
  /\ db = TRUE
  /\ isInitialized = TRUE
  /\ hasContent = TRUE
  /\ ingestedFiles = [n \in 1..Len(ListCsv(files)) |-> LedgerEntry(ListCsv(files)[n], 0)]
  /\ lastIngestTime = 0
  /\ searchCount = 0
  /\ matchCount = 0
  /\ useFullTextSearch \in BOOLEAN
  /\ embeddingFailureCount = (IF useFullTextSearch THEN 1 ELSE 0)
  /\ serverIsInitialized = TRUE
  /\ tasks = <<>>
  /\ ret = NoRet
  /\ hist = [InitHist EXCEPT !.embedded = ~useFullTextSearch]

NextIngest ==
  \/ \E name \in FileNames : TouchFile(name)
  \/ StatusCall
  \/ \E k \in 1..Len(tasks) : IngestRead(k)
  \/ \E k \in 1..Len(tasks), ok \in BOOLEAN : DocumentEmbedDone(k, ok)

SpecIngest == InitIngest /\ [][NextIngest]_vars

\* ------------------------------------------------ the ledger after a load
\* A service that initialize left ready by loading (l.116-134) the store an
\* earlier run built over two source files, the second written with or
\* after the first; files are then added, changed and removed, status()
\* starts refresh passes and initialize is called again.
LedgerDirectories ==
  { [name \in FileNames |->
       [present |-> TRUE,
        mtime |-> IF name = "a.csv" THEN 0 ELSE second,
        rows |-> RowsShort]] : second \in {0, 1} }

InitLedger ==
  /\ now = 1
  /\ files \in LedgerDirectories
  /\ embedModel = DefaultEmbedding
  /\ dbFile = [exists |-> TRUE, mtime |-> 1]
  /\ documents = PersistedDocuments(files)
  /\ embeddings = [i \in 1..Len(documents) |->
                     EmbeddingRow(documents[i], embedModel[documents[i].content])]
  /\ fts = [rows |-> [i \in 1..Len(documents) |-> FtsRow(documents[i])], health |-> "ok"]
  /\ db = TRUE
  /\ isInitialized = TRUE
  /\ hasContent = TRUE
  /\ ingestedFiles = LoadedLedger(ListCsv(files), files)
  /\ lastIngestTime = MaxOf({files[name].mtime : name \in FileNames})
  /\ searchCount = 0
  /\ matchCount = 0
  /\ useFullTextSearch \in BOOLEAN
  /\ embeddingFailureCount = (IF useFullTextSearch THEN 1 ELSE 0)
  /\ serverIsInitialized = TRUE
  /\ tasks = <<>>
  /\ ret = NoRet
  /\ hist = [InitHist EXCEPT !.embedded = ~useFullTextSearch]

NextLedger ==
  \/ InitializeCall("agent")
  \/ \E k \in 1..Len(tasks) : IngestRead(k)
  \/ \E k \in 1..Len(tasks), ok \in BOOLEAN : DocumentEmbedDone(k, ok)
  \/ \E k \in 1..Len(tasks), ok \in BOOLEAN : ProbeDone(k, ok)
  \/ StatusCall
  \/ \E name \in FileNames : WriteFile(name)
  \/ \E name \in FileNames : TouchFile(name)
  \/ \E name \in FileNames : RemoveFile(name)

SpecLedger == InitLedger /\ [][NextLedger]_vars

\* ------------------------------------------------ ranking after re-ingestion
\* The store of InitIngest, whose rows were first inserted in the order of
\* PersistedDocuments; files are saved again unchanged, refresh passes
\* ingest them again and the vector path (l.500-564) is searched.
NextTies ==
  \/ \E name \in FileNames : TouchFile(name)
  \/ StatusCall
  \/ \E k \in 1..Len(tasks) : IngestRead(k)
  \/ \E k \in 1..Len(tasks), ok \in BOOLEAN : DocumentEmbedDone(k, ok)
  \/ \E query \in Queries, limit \in Limits : SearchVector(query, limit)
  \/ \E k \in 1..Len(tasks), ok \in BOOLEAN : QueryEmbedDone(k, ok)

SpecTies == InitIngest /\ [][NextTies]_vars

\* ------------------------------------------------------------------ claims
SearchReturned == ret.kind = "search"
AllTagged(results, tag) == \A i \in 1..Len(results) : results[i].sourceType = tag

\* C1: a call to search returns a list and never an exception, and a call
\* that meets a failure it does not recover from (the service not ready,
\* the store handle gone, a full-text query still raising after the one
\* rebuild, a query with no term to match) returns the empty list.
SearchNeverThrows ==
  SearchReturned =>
    /\ ~ret.threw
    /\ ( \/ ret.path = "none"
         \/ ~db
         \/ /\ ret.path \in {"text", "fallback"}
            /\ \/ fts.health \in {"damaged", "missing"}
               \/ prepareSearchTerms(ret.query) = <<>> )
       => ret.results = <<>>

\* a search whose query embedding failed and whose full-text query kept
\* raising has returned the empty list
SearchFailedTwiceReturned ==
  /\ SearchReturned
  /\ ret.path = "fallback"
  /\ db /\ hasContent /\ Len(documents) > 0
  /\ fts.health = "damaged"
  /\ ret.results = <<>>
  /\ ~ret.threw

\* C2: once a search has failed on the vector path the service is in
\* text-only mode in every later state.
BreakerStaysOpen == hist.tripped => useFullTextSearch

\* C3: the callers of initialize share one attempt: the store rebuild
\* (drop the tables, ingest every file) is never in flight twice.
Rebuilding(k) ==
  /\ tasks[k].kind = "init"
  /\ tasks[k].regenerateDb
  /\ tasks[k].pc \in {"read", "embed"}

RebuildNeverTwice ==
  Cardinality({k \in 1..Len(tasks) : Rebuilding(k)}) <= 1

\* C4 as stated: every call to search adds 1 to totalSearches.
EveryCallCounted ==
  [][hist'.calls = hist.calls + 1 => searchCount' = searchCount + 1]_vars

\* C4 as amended: a call to search adds 1 to totalSearches when the store
\* is open, the service initialized and content present, whichever path
\* serves it, and leaves it unchanged when it returns at the readiness
\* guard; nothing else changes it.
ReadyCallsCounted ==
  [][ /\ hist'.calls = hist.calls + 1
         => searchCount' = searchCount + (IF Ready(Service) THEN 1 ELSE 0)
      /\ hist'.calls = hist.calls => searchCount' = searchCount ]_vars

\* one call has returned at the guard and another has been counted
CountedAndUncounted == searchCount > 0 /\ hist.calls > searchCount

\* C5: a call to search adds to totalMatches the number of results it
\* returns, on the vector path and on the text path alike.
EveryResultCounted ==
  [][ret'.kind = "search" => matchCount' = matchCount + Len(ret'.results)]_vars

\* C6: while the provider has failed every call made to it, an initialize
\* that returns true (a non-empty corpus) has raised embeddingFailures
\* above its value at the call, and every search returns a list whose
\* results are all tagged 'text'.
DegradesToText ==
  ~hist.embedded =>
    /\ (ret.kind = "initialize" /\ ret.result)
         => embeddingFailureCount > ret.failuresAtCall
    /\ SearchReturned => ~ret.threw /\ AllTagged(ret.results, "text")

\* with a provider that never answered, a search has found a document
TextAnswerWithoutProvider ==
  /\ ~hist.embedded
  /\ SearchReturned
  /\ Len(ret.results) > 0
  /\ embeddingFailureCount > 0

\* C7: a search whose query embedding could not be obtained returns, in
\* that same call, the text-search answer for its query: the first `limit`
\* rows of the full-text index matching the query's terms, tagged 'text'.
FallbackAnswersByText ==
  (SearchReturned /\ ret.path = "fallback") =>
    /\ ~ret.threw
    /\ useFullTextSearch
    /\ AllTagged(ret.results, "text")
    /\ (Ready(Service) /\ fts.health = "ok" /\ prepareSearchTerms(ret.query) # <<>>)
         => LET rows == FtsQuery(fts, prepareSearchTerms(ret.query), ret.limit).rows
            IN [i \in 1..Len(ret.results) |-> ret.results[i].content]
                 = [i \in 1..Len(rows) |-> rows[i].content]

\* a search whose query embedding failed has returned a document
FallbackFoundDocument ==
  /\ SearchReturned
  /\ ret.path = "fallback"
  /\ Len(ret.results) > 0

\* C8: the vector path returns at most `limit` results, in non-increasing
\* order of similarity.
VectorAnswer == SearchReturned /\ ret.path = "vector"

RankingValid ==
  VectorAnswer =>
    /\ Len(ret.results) <= ret.limit
    /\ \A i, j \in 1..Len(ret.results) :
         i < j => ret.results[i].similarity >= ret.results[j].similarity

\* a vector answer cut to the limit whose first result scores above its last
RankedAndCut ==
  /\ VectorAnswer
  /\ Len(embeddings) > ret.limit
  /\ Len(ret.results) = ret.limit
  /\ ret.limit > 1
  /\ ret.results[1].similarity > ret.results[ret.limit].similarity

\* C9: every similarity the vector path returns lies in [0,1].
SimilarityInUnitInterval ==
  VectorAnswer =>
    \A i \in 1..Len(ret.results) :
      ret.results[i].similarity >= 0 /\ ret.results[i].similarity <= SimScale

\* C10 as stated: a returned row of definitions.csv scores
\* min(1.0, 1.2 x cosine) and stands above every returned row of another
\* file with the same raw cosine.
StoredVector(id) == (CHOOSE e \in Range(embeddings) : e.document_id = id).embedding
RawCosine(id) == computeCosineSimilarity(embedModel[ret.query], StoredVector(id))
Source(id) == id[1]

HasEmbedding(id) == \E e \in Range(embeddings) : e.document_id = id

OnlyEmbeddedRanked ==
  VectorAnswer =>
    /\ \A i \in 1..Len(ret.ids) : HasEmbedding(ret.ids[i])
    /\ Len(ret.results) <= Len(embeddings)

\* a vector answer with room left under its limit while a document without
\* an embedding stays out of it
UnembeddedLeftOut ==
  /\ VectorAnswer
  /\ \E d \in Range(documents) : ~HasEmbedding(d.id)
  /\ Len(ret.results) > 0
  /\ Len(ret.results) < ret.limit

\* C12: ingesting an unchanged file again leaves the set of document ids
\* with their content as the first ingestion left it, and the number of
\* document rows does not grow.
IdAndContent(docs) == {[id |-> d.id, content |-> d.content] : d \in Range(docs)}

ReingestionIdempotent ==
  /\ IdAndContent(documents) = IdAndContent(PersistedDocuments(files))
  /\ Len(documents) = Len(PersistedDocuments(files))

\* a refresh pass has ingested a file a second time and ended
ReingestedUnchanged ==
  /\ tasks = <<>>
  /\ \E n \in 1..Len(ingestedFiles) :
       /\ ingestedFiles[n].ingestTime > 0
       /\ files[ingestedFiles[n].fileName].rows = RowsLong

\* C13: the id of every stored document is createDocumentId of its file
\* name, row index and content, whatever the service went through before
\* it was stored, and no other content at that file and row index has
\* that id.
Contents == {formatRowContent(RowCache), formatRowContent(RowCat)}

IdIsFunctionOfTriple ==
  \A d \in Range(documents) :
    /\ d.id = createDocumentId(d.metadata.source, d.metadata.row_index, d.content)
    /\ \A c \in Contents \ {d.content} :
         createDocumentId(d.metadata.source, d.metadata.row_index, c) # d.id

\* the store holds two documents of one file and row index, written before
\* and after the row's content changed
TwoVersionsOfRow ==
  \E d1, d2 \in Range(documents) :
    /\ d1.metadata.source = d2.metadata.source
    /\ d1.metadata.row_index = d2.metadata.row_index
    /\ d1.content # d2.content
    /\ d1.id # d2.id

\* Canonical form of a text: control characters (here the form feed) are
\* stripped. Variants holds, next to the contents of the corpus, a content
\* that differs from one of them by a form feed only.
Canonical(text) == SelectSeq(text, LAMBDA c : c # "\f")
RowCacheFormFeed == << <<ColTerm, <<"c", "a", "c", "h", "e", "\f">>>> >>
Variants == Contents \cup {formatRowContent(RowCacheFormFeed)}

RebuildReturned ==
  /\ ret.kind = "initialize"
  /\ ret.normal
  /\ ret.regenerateDb
  /\ ret.startedAt = now

LedgerNames == [n \in 1..Len(ingestedFiles) |-> ingestedFiles[n].fileName]

RebuildLeavesCorpus ==
  RebuildReturned =>
    /\ IdAndContent(documents) = IdAndContent(PersistedDocuments(files))
    /\ Len(documents) = Len(PersistedDocuments(files))
    /\ LedgerNames = ListCsv(files)

\* C16: an initialize that finds rag.db and no source file newer than it
\* starts no ingestion and leaves the document rows as they are, and it
\* makes the ledger one entry per source file carrying the file's
\* modification time; a refresh pass that starts on such a ledger ingests
\* nothing and changes neither the rows nor the ledger.
LoadStarted ==
  /\ Len(tasks') = Len(tasks) + 1
  /\ tasks'[Len(tasks')].kind = "init"
  /\ ~tasks'[Len(tasks')].regenerateDb

LedgerIsDirectory ==
  /\ LedgerNames = ListCsv(files)
  /\ \A n \in 1..Len(ingestedFiles) :
       ingestedFiles[n].ingestTime = files[ingestedFiles[n].fileName].mtime

LoadKeepsStore ==
  [][ /\ LoadStarted =>
           /\ tasks'[Len(tasks')].pc = "probe"
           /\ documents' = documents
           /\ LedgerIsDirectory'
      /\ (ret'.kind = "status" /\ LedgerIsDirectory /\ Len(ingestedFiles) > 0) =>
           /\ ret'.pass.kind = "refresh" /\ ret'.pass.how = "end"
           /\ tasks' = tasks
           /\ documents' = documents
           /\ ingestedFiles' = ingestedFiles ]_vars

\* a load has returned to serverInit, whose refresh pass right after it ran
\* to its end without ingesting, in a directory that was touched before
LoadThenQuietPass ==
  /\ ret.kind = "initialize"
  /\ ~ret.regenerateDb
  /\ ret.normal /\ ret.result
  /\ ret.pass.kind = "refresh" /\ ret.pass.how = "end"
  /\ LedgerIsDirectory
  /\ \E n \in 1..Len(ingestedFiles) : ingestedFiles[n].ingestTime > 0
  /\ \A k \in 1..Len(tasks) : tasks[k].kind # "refresh"

\* the refresh pass that ended in the step just taken, if one did
PassEnded ==
  IF ret.kind = "refresh" THEN ret
  ELSE IF ret.kind \in {"status", "initialize"} THEN ret.pass
  ELSE NoPass

\* a pass ran to the end of its try block on an initialized service whose
\* store was never closed, in a directory that did not change since the
\* pass started
PassCompleted ==
  /\ PassEnded.kind = "refresh"
  /\ PassEnded.how = "end"
  /\ PassEnded.startedAt = now
  /\ isInitialized /\ db /\ ~hist.closed

NewFiles(pass) == {name \in Range(pass.files) : name \notin pass.known}

\* C17: when a refresh pass completes on an initialized service, every
\* source file of the directory that was not in the ledger when the pass
\* started has a ledger entry and the documents of its rows are in the
\* store.
NewFilesIngested ==
  PassCompleted =>
    \A name \in NewFiles(PassEnded) :
      /\ \E n \in 1..Len(ingestedFiles) : ingestedFiles[n].fileName = name
      /\ IdAndContent(DocumentsOfFile(name, files[name].rows)) \subseteq IdAndContent(documents)

\* a pass that found a new file has completed
NewFileFound ==
  /\ PassCompleted
  /\ NewFiles(PassEnded) # {}
  /\ ret.kind = "refresh"

\* C18: after a refresh pass (the directory as it was when it started,
\* possibly without any source file), the ledger has no entry for a file
\* that is not in the directory.
RemovedFilesDropped ==
  ( /\ PassEnded.kind = "refresh"
    /\ PassEnded.how \in {"end", "return"}
    /\ PassEnded.startedAt = now )
  => \A n \in 1..Len(ingestedFiles) : files[ingestedFiles[n].fileName].present

\* C19: when a refresh pass completes on an initialized service, every
\* ledger entry whose file was modified later than the entry's time when
\* the pass started carries a time no earlier than that modification and
\* the documents of the file's rows are in the store, whatever else the
\* pass found.
StaleEntriesReingested ==
  PassCompleted =>
    \A st \in PassEnded.stale :
      /\ \A n \in 1..Len(ingestedFiles) :
           ingestedFiles[n].fileName = st[1] => ingestedFiles[n].ingestTime >= st[2]
      /\ IdAndContent(DocumentsOfFile(st[1], files[st[1]].rows)) \subseteq IdAndContent(documents)

\* C20: in every reachable state the ledger holds at most one entry per
\* source file name, however status() calls, suspended refresh passes and
\* calls to initialize interleave.
LedgerOneEntryPerFile ==
  \A m, n \in 1..Len(ingestedFiles) :
    ingestedFiles[m].fileName = ingestedFiles[n].fileName => m = n

\* C21: an ingestion on an open store upserts a document before it asks
\* for its embedding; when the provider then fails, no document row is
\* removed and no embedding row is written, the row loop goes on (the
\* following rows are stored up to the next row it waits on, or to the end
\* of the file), and on a healthy index text search finds the document.
TextSearchFinds(docs, index, doc) ==
  \E query \in Queries :
    \E res \in Range(textSearch(docs, index, query, Len(docs)).results) :
      res.content = doc.content

AwaitedDocument(t) == DocumentOf(t.file, t.r - 1, t.rows[t.r])

EmbeddingFailureKeepsDocument ==
  [][ /\ \A k \in 1..Len(tasks') :
           (tasks'[k].pc = "embed" /\ tasks'[k] \notin Range(tasks)) =>
             AwaitedDocument(tasks'[k]) \in Range(documents')
      /\ \A k \in 1..Len(tasks) :
           (db /\ tasks[k].pc = "embed" /\ DocumentEmbedDone(k, FALSE)) =>
             LET t == tasks[k]
                 waiting == Len(tasks') = Len(tasks) /\ tasks'[k].pc = "embed"
                 last == IF waiting THEN tasks'[k].r ELSE Len(t.rows)
             IN /\ Range(documents) \subseteq Range(documents')
                /\ embeddings' = embeddings
                /\ waiting => tasks'[k].r > t.r
                /\ \A j \in (t.r + 1)..last :
                     DocumentOf(t.file, j - 1, t.rows[j]) \in Range(documents')
                /\ (AwaitedDocument(t) \in Range(documents) /\ fts'.health = "ok") =>
                     TextSearchFinds(documents', fts', AwaitedDocument(t)) ]_vars

\* the embedding of the first row of a two-row file has failed; the row is
\* stored without an embedding and the ingestion waits on the second row
EmbeddingFailedRowKept ==
  \E k \in 1..Len(tasks) :
    /\ tasks[k].pc = "embed"
    /\ tasks[k].r = 2
    /\ embeddingFailureCount = 2
    /\ DocumentOf(tasks[k].file, 0, tasks[k].rows[1]) \in Range(documents)
    /\ ~HasEmbedding(DocumentOf(tasks[k].file, 0, tasks[k].rows[1]).id)
    /\ DocumentOf(tasks[k].file, 1, tasks[k].rows[2]) \in Range(documents)
    /\ TextSearchFinds(documents, fts, DocumentOf(tasks[k].file, 0, tasks[k].rows[1]))

\* C22: when the ingestion of one source file raises a parse error, in
\* an initialize or in a refresh pass on an initialized service (the
\* directory as it was at the call), the call still leaves every other
\* source file of its listing with a ledger entry and its documents in
\* the store, and an initialize still leaves the service initialized.
OthersIngested(listing, failed) ==
  \A name \in Range(listing) \ {failed} :
    /\ \E n \in 1..Len(ingestedFiles) : ingestedFiles[n].fileName = name
    /\ IdAndContent(DocumentsOfFile(name, files[name].rows)) \subseteq IdAndContent(documents)

ParseErrorIsolated ==
  /\ (ret.kind = "initialize" /\ ret.error # "" /\ ret.startedAt = now) =>
       /\ isInitialized
       /\ OthersIngested(ret.files, ret.error)
  /\ (PassEnded.kind = "refresh" /\ PassEnded.error # "" /\ PassEnded.startedAt = now
        /\ isInitialized /\ db) =>
       OthersIngested(PassEnded.files, PassEnded.error)

\* C23: when the provider fails the embedding of a document during an
\* ingestion (of initialize or of a refresh pass), the service is in
\* text-only mode right after, as it is after a failed query embedding.
DocumentFailureTripsBreaker ==
  [][ \A k \in 1..Len(tasks) :
        (tasks[k].pc = "embed" /\ DocumentEmbedDone(k, FALSE)) => useFullTextSearch' ]_vars

\* C24: a step raises embeddingFailureCount by exactly 1 when a call to
\* the provider fails in it (the test call of initialize, the call for a
\* document, the call for a query), and no other step changes it.
ProviderCallFailed ==
  \E k \in 1..Len(tasks) :
    \/ tasks[k].pc = "probe" /\ ProbeDone(k, FALSE)
    \/ tasks[k].pc = "embed" /\ DocumentEmbedDone(k, FALSE)
    \/ tasks[k].pc = "query" /\ QueryEmbedDone(k, FALSE)

FailuresCountFailedCalls ==
  [][ embeddingFailureCount' =
        embeddingFailureCount + (IF ProviderCallFailed THEN 1 ELSE 0) ]_vars

\* C25: when a search is answered by textSearch on a ready service whose
\* full-text query fails without a corruption signature, or still fails
\* after the rebuild and the retry, the answer is the substring scan over
\* the document rows.
AnsweredByText == SearchReturned /\ ret.path \in {"text", "fallback"}

ScanAnswersWhenIndexFails ==
  (AnsweredByText /\ Ready(Service) /\ fts.health \in {"damaged", "missing"}) =>
    ret.results = TextResults(LikeScan(documents, ret.query, ret.limit))

\* C26: when a search is answered by textSearch on a ready service for a
\* query without a token longer than 3 characters, the answer is the first
\* documents (up to the limit) whose content contains the whole query.
WholeQueryScan(docs, query, limit) ==
  Slice(SelectSeq(docs, LAMBDA d : Like(d.content, query)), limit)

ShortQueryMatchedWhole ==
  (AnsweredByText /\ Ready(Service) /\ prepareSearchTerms(ret.query) = <<>>) =>
    ret.results = TextResults(WholeQueryScan(documents, ret.query, ret.limit))

\* C27: when a search is answered by textSearch on a ready service whose
\* full-text query fails with the signature of a corruption that a
\* rebuild repairs, the document rows are left as they are, the index is
\* rebuilt from them and the query retried (whenever there is a document
\* and the query has a term), and the answer of a successful retry is the
\* answer of the same query against an index freshly built from the
\* document rows, which is the index the call leaves.
FreshIndex(docs) ==
  [rows |-> [i \in 1..Len(docs) |-> FtsRow(docs[i])], health |-> "ok"]

CorruptionRecovered ==
  [][ (AnsweredByText' /\ db' /\ isInitialized' /\ hasContent' /\ fts.health = "corrupt") =>
        /\ documents' = documents
        /\ (Len(documents) > 0 /\ prepareSearchTerms(ret'.query) # <<>>) => ret'.retried
        /\ ret'.retried =>
             /\ fts' = FreshIndex(documents)
             /\ ret'.results =
                  TextResults(FtsQuery(FreshIndex(documents),
                                       prepareSearchTerms(ret'.query), ret'.limit).rows) ]_vars

\* a text search has rebuilt a corrupted index, retried and found a document
RebuiltAndFound ==
  /\ AnsweredByText
  /\ ret.retried
  /\ Len(ret.results) > 0
  /\ fts = FreshIndex(documents)

\* C28: a step of search (the call, the arrival of the query embedding,
\* the text search and the index rebuild it runs) leaves the rows of the
\* documents and embeddings tables as they are.
SearchStarted ==
  /\ Len(tasks') = Len(tasks) + 1
  /\ tasks'[Len(tasks')].kind = "search"

SearchWritesNoCanonicalData ==
  [][ (SearchReturned' \/ SearchStarted) =>
        /\ documents' = documents
        /\ embeddings' = embeddings ]_vars

\* a search over a store with documents and embeddings has rewritten the
\* full-text index
SearchRewroteIndex ==
  /\ SearchReturned
  /\ ret.retried
  /\ Len(documents) > 0
  /\ Len(embeddings) > 0

\* C29: a search that returns while the service has no open store, is not
\* initialized (its initialization not started or still in flight) or has
\* no content returns the empty list and does not raise; a status() in such
\* a state returns the ledger, the last ingest time and the counters as
\* they are, whatever happened to the refresh pass it started.
Unavailable == ~db \/ ~isInitialized \/ ~hasContent

UnavailableAnswersEmpty ==
  /\ (SearchReturned /\ Unavailable) =>
       /\ ret.results = <<>>
       /\ ~ret.threw
  /\ (ret.kind = "status" /\ Unavailable) =>
       /\ ret.files = ingestedFiles
       /\ ret.lastIngestTime = lastIngestTime
       /\ ret.stats = [totalSearches |-> searchCount, totalMatches |-> matchCount,
                       embeddingFailures |-> embeddingFailureCount]

\* a search has returned while an initialize that has opened a store with
\* content still awaits its test embedding
SearchedDuringInitialize ==
  /\ SearchReturned
  /\ db /\ hasContent /\ ~isInitialized
  /\ \E k \in 1..Len(tasks) : tasks[k].kind = "init" /\ tasks[k].pc = "probe"
  /\ Len(documents) > 0

\* C30: whenever status() reports a non-empty ledger, the lastIngestTime
\* it reports is the maximum ingestTime over the entries it reports.
LastIngestTimeIsLedgerMax ==
  (ret.kind = "status" /\ Len(ret.files) > 0) =>
    ret.lastIngestTime = MaxOf({ret.files[n].ingestTime : n \in 1..Len(ret.files)})

\* C31: no step of the service (initialize, a second initialize, search,
\* status and its refresh pass, close) lowers searchCount, matchCount or
\* embeddingFailureCount.
CountersNeverDecrease ==
  [][ /\ searchCount' >= searchCount
      /\ matchCount' >= matchCount
      /\ embeddingFailureCount' >= embeddingFailureCount ]_vars

\* an initialize called after the provider had failed is rebuilding the
\* store, and the failures counted before the call are still counted
CountersKeptAcrossRebuild ==
  \E k \in 1..Len(tasks) :
    /\ tasks[k].kind = "init"
    /\ tasks[k].regenerateDb
    /\ tasks[k].failuresAtCall > 0
    /\ embeddingFailureCount >= tasks[k].failuresAtCall

\* C32: whenever the ingestion of a source file starts, the file was
\* added or changed since it was last indexed: in initialize it is newer
\* than the rag.db the call found (or there was none), in a refresh pass
\* it was not in the ledger or was newer than its ledger entry when the
\* pass started.
IngestionStarts(k) ==
  /\ tasks'[k].pc = "read"
  /\ tasks'[k] \notin Range(tasks)

OnlyAddedOrChangedIngested ==
  [][ \A k \in 1..Len(tasks') :
        IngestionStarts(k) =>
          LET t == tasks'[k]
          IN IF t.kind = "init"
               THEN t.dbTime = NoTime \/ files[t.file].mtime > t.dbTime
               ELSE t.file \notin t.known \/ \E st \in t.stale : st[1] = t.file ]_vars

\* C33: in every list textSearch returns, the result at 0-based position
\* i has similarity 1 - 0.1 * i and is tagged 'text'; every result of the
\* vector path is tagged 'vector'.
SyntheticScore(i) == SimScale - i * (SimScale \div 10)

TextScoresByRank ==
  /\ AnsweredByText =>
       \A n \in 1..Len(ret.results) :
         /\ ret.results[n].similarity = SyntheticScore(n - 1)
         /\ ret.results[n].sourceType = "text"
  /\ VectorAnswer =>
       \A n \in 1..Len(ret.results) : ret.results[n].sourceType = "vector"

\* a text search has returned two results
TwoTextResults ==
  /\ AnsweredByText
  /\ Len(ret.results) = 2
  /\ ret.results[2].similarity < ret.results[1].similarity

\* C34: on the vector path, documents of equal similarity are returned in
\* the order in which they were first inserted into the store, also after
\* an unchanged file was ingested again.  (In SpecTies no row of a file
\* changes and the store is never rebuilt, so the order of first insertion
\* is the order of PersistedDocuments(files).)
FirstInserted(id) ==
  CHOOSE n \in 1..Len(PersistedDocuments(files)) : PersistedDocuments(files)[n].id = id

TiesInInsertionOrder ==
  VectorAnswer =>
    \A i, j \in 1..Len(ret.results) :
      (i < j /\ ret.results[i].similarity = ret.results[j].similarity)
        => FirstInserted(ret.ids[i]) < FirstInserted(ret.ids[j])

\* C35: no step other than a rebuild by initialize removes a document id
\* from the store: a refresh pass keeps the documents of a file that was
\* removed from the directory and, when a row of a file changed, the
\* document of the old row beside the document of the new one.
DocumentIds == {documents[n].id : n \in 1..Len(documents)}

DocumentIdsOnlyGrow ==
  [][ \/ \E caller \in {"server", "agent"} : InitializeCall(caller)
      \/ DocumentIds \subseteq DocumentIds' ]_vars

\* a pass has dropped a removed file from the ledger and its documents are
\* still in the store
RemovedFileDocumentsKept ==
  /\ PassEnded.kind = "refresh"
  /\ PassEnded.how = "end"
  /\ isInitialized /\ db
  /\ \E id \in DocumentIds :
       /\ ~files[id[1]].present
       /\ id[1] \notin Range(LedgerNames)
       /\ id[1] \in PassEnded.known

\* C36: the mode flag is set only in a step in which a call to the
\* embedding provider failed; a search whose provider call succeeded leaves
\* the flag and embeddingFailureCount as they were, whatever happens in the
\* later steps of the vector path.
OnlyProviderFailureSwitchesMode ==
  [][ /\ (useFullTextSearch' /\ ~useFullTextSearch) => ProviderCallFailed
      /\ \A k \in 1..Len(tasks) :
           (tasks[k].pc = "query" /\ QueryEmbedDone(k, TRUE))
             => /\ useFullTextSearch' = useFullTextSearch
                /\ embeddingFailureCount' = embeddingFailureCount ]_vars

\* C37: every file listed in the ledger has had its rows written to the
\* store: the store holds a document of every file that has a ledger entry
\* (no step but a rebuild, which also empties the ledger, removes a
\* document, and every source file has at least one row).
LedgerFilesIngested ==
  \A n \in 1..Len(ingestedFiles) :
    \E id \in DocumentIds : id[1] = ingestedFiles[n].fileName

\* C38: the value one status() call returns reflects the refresh pass that
\* call started: the pass has ended when the value is built, so that the
\* lastIngestTime and the counters in it are those after the pass, and the
\* ledger in it has an entry for every source file in the directory.
StatusReflectsItsPass ==
  ret.kind = "status" =>
    /\ ret.pass.kind = "refresh"
    /\ Range(ListCsv(files)) \subseteq {ret.files[n].fileName : n \in 1..Len(ret.files)}

\* C39: in text-only mode, the step of a refresh pass in which a file is
\* read and its rows are stored starts no call to the embedding provider,
\* leaves embeddingFailureCount as it was, writes no row of the embeddings
\* table and, the store being open, leaves every document of the file in
\* the store.
TextModeIngestion(k) ==
  /\ tasks[k].kind = "refresh"
  /\ tasks[k].pc = "read"
  /\ useFullTextSearch
  /\ IngestRead(k)

TextModeIngestsWithoutProvider ==
  [][ \A k \in 1..Len(tasks) :
        TextModeIngestion(k) =>
          /\ \A j \in 1..Len(tasks') :
               tasks'[j].pc \in {"embed", "probe", "query"} => tasks'[j] \in Range(tasks)
          /\ embeddingFailureCount' = embeddingFailureCount
          /\ embeddings' = embeddings
          /\ db =>
               \A doc \in Range(DocumentsOfFile(tasks[k].file, files[tasks[k].file].rows)) :
                 doc.id \in DocumentIds' ]_vars

\* in text-only mode a pass has ingested a file that was not in the ledger
\* and the store holds its documents, none of them with an embedding
IngestedInTextMode ==
  /\ useFullTextSearch /\ db /\ isInitialized
  /\ PassEnded.kind = "refresh"
  /\ PassEnded.how = "end"
  /\ \E name \in NewFiles(PassEnded) :
       /\ files[name].present
       /\ \A doc \in Range(DocumentsOfFile(name, files[name].rows)) :
            doc.id \in DocumentIds /\ ~HasEmbedding(doc.id)

\* C40: whenever isReady() is true the store is open and holds at least one
\* document, so that a search passes the guard of l.501 and is served; in
\* particular isReady() is false once close() has closed the store.
ReadyMeansServed ==
  isReady(Service) =>
    /\ db
    /\ Len(documents) > 0
    /\ Ready(Service)

====
